---------------------------- MODULE Spec2Model ----------------------------
(***************************************************************************)
(* Model of rindexer_core/src/generator/networks_bindings.rs: the naming   *)
(* functions, the two per-network emitters and generate_networks_code.     *)
(*                                                                         *)
(* A Rust String is a sequence of characters; a character is a one-element *)
(* TLA+ string, except the two non-ASCII letters used as inputs, which are *)
(* written by code point ("U+0131", "U+212A").                             *)
(***************************************************************************)
EXTENDS Integers, Sequences, FiniteSets, TLC

(* ------------------------------ bounds -------------------------------- *)

\* longest slice of networks handed to generate_networks_code
MaxNetworks == 2

\* number of times generate_networks_code is called on the same slice
MaxCalls == 2

\* longest network name drawn from NameAlphabet in the naming specification
MaxNameLen == 2

(* ------------------------- string literals ---------------------------- *)

\* "_PROVIDER", the literal of the format string at line 28
ProviderSuffix == <<"_", "P", "R", "O", "V", "I", "D", "E", "R">>

\* "get_", the literal of the format strings at lines 44 and 60
GetPrefix == <<"g", "e", "t", "_">>

\* "Some(" and ")" of the format string at line 80, "None" at line 82
SomeOpen == <<"S", "o", "m", "e", "(">>

SomeClose == <<")">>

NoneText == <<"N", "o", "n", "e">>

\* "}" pushed at line 134
CloseBrace == <<"}">>

\* the raw string of lines 115-127
Header ==
    <<"\n", " ", " ", " ", " ", " ", " ", " ", " ", " ", " ", " ", " ", "/", "/", "/", " ",
      "T", "H", "I", "S", " ", "I", "S", " ", "A", " ", "G", "E", "N", "E", "R", "A", "T", "E",
      "D", " ", "F", "I", "L", "E", ".", " ", "D", "O", " ", "N", "O", "T", " ", "M", "O", "D",
      "I", "F", "Y", " ", "M", "A", "N", "U", "A", "L", "L", "Y", ".", "\n", " ", " ", " ",
      " ", " ", " ", " ", " ", " ", " ", " ", " ", "/", "/", "/", "\n", " ", " ", " ", " ",
      " ", " ", " ", " ", " ", " ", " ", " ", "/", "/", "/", " ", "T", "h", "i", "s", " ", "f",
      "i", "l", "e", " ", "w", "a", "s", " ", "a", "u", "t", "o", " ", "g", "e", "n", "e", "r",
      "a", "t", "e", "d", " ", "b", "y", " ", "r", "i", "n", "d", "e", "x", "e", "r", " ", "-",
      " ", "h", "t", "t", "p", "s", ":", "/", "/", "g", "i", "t", "h", "u", "b", ".", "c", "o",
      "m", "/", "j", "o", "s", "h", "s", "t", "e", "v", "e", "n", "s", "1", "9", "/", "r", "i",
      "n", "d", "e", "x", "e", "r", ".", "\n", " ", " ", " ", " ", " ", " ", " ", " ", " ",
      " ", " ", " ", "/", "/", "/", " ", "A", "n", "y", " ", "m", "a", "n", "u", "a", "l", " ",
      "c", "h", "a", "n", "g", "e", "s", " ", "t", "o", " ", "t", "h", "i", "s", " ", "f", "i",
      "l", "e", " ", "w", "i", "l", "l", " ", "b", "e", " ", "o", "v", "e", "r", "w", "r", "i",
      "t", "t", "e", "n", ".", "\n", " ", " ", " ", " ", " ", " ", " ", " ", " ", " ", " ",
      " ", "\n", " ", " ", " ", " ", " ", " ", " ", " ", " ", " ", " ", " ", "u", "s", "e",
      " ", "e", "t", "h", "e", "r", "s", ":", ":", "p", "r", "o", "v", "i", "d", "e", "r", "s",
      ":", ":", "{", "P", "r", "o", "v", "i", "d", "e", "r", ",", " ", "H", "t", "t", "p", ",",
      " ", "R", "e", "t", "r", "y", "C", "l", "i", "e", "n", "t", "}", ";", "\n", " ", " ",
      " ", " ", " ", " ", " ", " ", " ", " ", " ", " ", "u", "s", "e", " ", "r", "i", "n", "d",
      "e", "x", "e", "r", "_", "c", "o", "r", "e", ":", ":", "l", "a", "z", "y", "_", "s", "t",
      "a", "t", "i", "c", ";", "\n", " ", " ", " ", " ", " ", " ", " ", " ", " ", " ", " ",
      " ", "u", "s", "e", " ", "r", "i", "n", "d", "e", "x", "e", "r", "_", "c", "o", "r", "e",
      ":", ":", "p", "r", "o", "v", "i", "d", "e", "r", ":", ":", "c", "r", "e", "a", "t", "e",
      "_", "r", "e", "t", "r", "y", "_", "c", "l", "i", "e", "n", "t", ";", "\n", " ", " ",
      " ", " ", " ", " ", " ", " ", " ", " ", " ", " ", "u", "s", "e", " ", "s", "t", "d", ":",
      ":", "s", "y", "n", "c", ":", ":", "A", "r", "c", ";", "\n", "\n", " ", " ", " ", " ",
      " ", " ", " ", " ", " ", " ", " ", " ", "l", "a", "z", "y", "_", "s", "t", "a", "t", "i",
      "c", "!", " ", "{", "\n", " ", " ", " ", " ", " ", " ", " ", " ">>

LazyPart0 ==
    <<"\n", " ", " ", " ", " ", " ", " ", " ", " ", " ", " ", " ", " ", "s", "t", "a", "t",
      "i", "c", " ", "r", "e", "f", " ">>

LazyPart1 ==
    <<":", " ", "A", "r", "c", "<", "P", "r", "o", "v", "i", "d", "e", "r", "<", "R", "e", "t",
      "r", "y", "C", "l", "i", "e", "n", "t", "<", "H", "t", "t", "p", ">", ">", ">", " ", "=",
      " ", "c", "r", "e", "a", "t", "e", "_", "r", "e", "t", "r", "y", "_", "c", "l", "i", "e",
      "n", "t", "(", "\"">>

LazyPart2 ==
    <<"\"", ",", " ">>

LazyPart3 ==
    <<")", ".", "e", "x", "p", "e", "c", "t", "(", "\"", "E", "r", "r", "o", "r", " ", "c",
      "r", "e", "a", "t", "i", "n", "g", " ", "p", "r", "o", "v", "i", "d", "e", "r", "\"",
      ")", ";", "\n", " ", " ", " ", " ", " ", " ", " ", " ">>

ProviderPart0 ==
    <<"\n", " ", " ", " ", " ", " ", " ", " ", " ", " ", " ", " ", " ", "p", "u", "b", " ",
      "f", "n", " ">>

ProviderPart1 ==
    <<"(", ")", " ", "-", ">", " ", "A", "r", "c", "<", "P", "r", "o", "v", "i", "d", "e", "r",
      "<", "R", "e", "t", "r", "y", "C", "l", "i", "e", "n", "t", "<", "H", "t", "t", "p", ">",
      ">", ">", " ", "{", "\n", " ", " ", " ", " ", " ", " ", " ", " ", " ", " ", " ", " ",
      " ", " ", " ", " ">>

ProviderPart2 ==
    <<".", "c", "l", "o", "n", "e", "(", ")", "\n", " ", " ", " ", " ", " ", " ", " ", " ",
      " ", " ", " ", " ", "}", "\n", " ", " ", " ", " ", " ", " ", " ", " ">>

(* --------------------- str::to_uppercase / to_lowercase ---------------- *)

AsciiLower ==
    <<"a", "b", "c", "d", "e", "f", "g", "h", "i", "j", "k", "l", "m",
      "n", "o", "p", "q", "r", "s", "t", "u", "v", "w", "x", "y", "z">>

AsciiUpper ==
    <<"A", "B", "C", "D", "E", "F", "G", "H", "I", "J", "K", "L", "M",
      "N", "O", "P", "Q", "R", "S", "T", "U", "V", "W", "X", "Y", "Z">>

\* U+0131 LATIN SMALL LETTER DOTLESS I: upper-cases to "I", lower-case already
DotlessI == "U+0131"

\* U+212A KELVIN SIGN: an upper-case letter whose lower case is ASCII "k"
KelvinSign == "U+212A"

Range(s) == {s[i] : i \in 1..Len(s)}

IndexIn(c, table) == CHOOSE i \in 1..Len(table) : table[i] = c

\* char::to_uppercase; Unicode-aware, other characters map to themselves
char_to_uppercase(c) ==
    IF c \in Range(AsciiLower) THEN AsciiUpper[IndexIn(c, AsciiLower)]
    ELSE IF c = DotlessI THEN "I"
    ELSE c

\* char::to_lowercase; Unicode-aware, other characters map to themselves
char_to_lowercase(c) ==
    IF c \in Range(AsciiUpper) THEN AsciiLower[IndexIn(c, AsciiUpper)]
    ELSE IF c = KelvinSign THEN "k"
    ELSE c

\* str::to_uppercase: every character replaced by its upper case
to_uppercase(s) == [i \in 1..Len(s) |-> char_to_uppercase(s[i])]

\* str::to_lowercase: every character replaced by its lower case
to_lowercase(s) == [i \in 1..Len(s) |-> char_to_lowercase(s[i])]

(* -------------------------- Display for u64 --------------------------- *)

Digits == <<"0", "1", "2", "3", "4", "5", "6", "7", "8", "9">>

RECURSIVE u64_to_string(_)
\* the "{}" rendering of an unsigned integer: decimal, no sign, no padding
u64_to_string(n) ==
    IF n < 10 THEN <<Digits[n + 1]>>
    ELSE u64_to_string(n \div 10) \o <<Digits[(n % 10) + 1]>>

(* ------------------------------ Option -------------------------------- *)

None == <<>>

Some(v) == <<v>>

(* ------------------------------- Code --------------------------------- *)

\* Code::new wraps a String
Code_new(s) == s

\* Code::push_str appends the text of another Code
push_str(code, other) == code \o other

(* --------------------------- naming functions -------------------------- *)

\* variant: the name is not upper-cased
network_provider_name_from_name_no_upper(network_name) ==
    network_name \o ProviderSuffix

\* variant: characters that are not ASCII letters are dropped from the name
network_provider_name_from_name_letters_only(network_name) ==
    SelectSeq(to_uppercase(network_name), LAMBDA c : c \in Range(AsciiUpper))
        \o ProviderSuffix

network_provider_name_from_name(network_name) ==
    to_uppercase(network_name) \o ProviderSuffix

network_provider_name(network) ==
    network_provider_name_from_name(network.name)

network_provider_fn_name(network) ==
    GetPrefix \o to_lowercase(network_provider_name(network))

\* variant: the provider name is not lower-cased
network_provider_fn_name_by_name_no_lower(network_name) ==
    GetPrefix \o network_provider_name_from_name(network_name)

network_provider_fn_name_by_name(network_name) ==
    GetPrefix \o to_lowercase(network_provider_name_from_name(network_name))

(* ------------------------------ emitters ------------------------------- *)

\* variant: an absent hint is rendered as the number zero
compute_units_per_second_text_sentinel(network) ==
    IF network.compute_units_per_second # None
    THEN SomeOpen \o u64_to_string(network.compute_units_per_second[1]) \o SomeClose
    ELSE SomeOpen \o u64_to_string(0) \o SomeClose

\* the value bound to {compute_units_per_second}, lines 78-83
compute_units_per_second_text(network) ==
    IF network.compute_units_per_second # None
    THEN SomeOpen \o u64_to_string(network.compute_units_per_second[1]) \o SomeClose
    ELSE NoneText

RECURSIVE escape_debug(_)
\* the "{:?}" rendering of the characters of a string: quotes and
\* backslashes are preceded by a backslash
escape_debug(s) ==
    IF s = <<>> THEN <<>>
    ELSE (IF Head(s) \in {"\"", "\\"} THEN <<"\\", Head(s)>> ELSE <<Head(s)>>)
         \o escape_debug(Tail(s))

\* variant: the url is escaped before it is embedded
generate_network_lazy_provider_code_escaped_url(network) ==
    Code_new(LazyPart0 \o network_provider_name(network)
             \o LazyPart1 \o escape_debug(network.url)
             \o LazyPart2 \o compute_units_per_second_text(network)
             \o LazyPart3)

generate_network_lazy_provider_code(network) ==
    Code_new(LazyPart0 \o network_provider_name(network)
             \o LazyPart1 \o network.url
             \o LazyPart2 \o compute_units_per_second_text(network)
             \o LazyPart3)

\* variant: the body clones the upper-cased name, without the suffix
generate_network_provider_code_wrong_handle(network) ==
    Code_new(ProviderPart0 \o network_provider_fn_name(network)
             \o ProviderPart1 \o to_uppercase(network.name)
             \o ProviderPart2)

generate_network_provider_code(network) ==
    Code_new(ProviderPart0 \o network_provider_fn_name(network)
             \o ProviderPart1 \o network_provider_name(network)
             \o ProviderPart2)

(* ------------------------------- inputs -------------------------------- *)

Ethereum == <<"E", "t", "h", "e", "r", "e", "u", "m">>

ethereum == <<"e", "t", "h", "e", "r", "e", "u", "m">>

\* a name of two non-ASCII letters
DotlessKelvin == <<DotlessI, KelvinSign>>

NetworkNames == {Ethereum, ethereum, DotlessKelvin}

\* https://eth.example/rpc
EthUrl ==
    <<"h", "t", "t", "p", "s", ":", "/", "/", "e", "t", "h", ".", "e", "x", "a", "m", "p",
      "l", "e", "/", "r", "p", "c">>

\* ws://h/"\  : a url holding a quote and a backslash
QuotedUrl == <<"w", "s", ":", "/", "/", "h", "/", "\"", "\\">>

NetworkUrls == {EthUrl, QuotedUrl}

ComputeUnits == {None, Some(330)}

\* manifest::yaml::Network, the fields this file reads
Network ==
    [name : NetworkNames, url : NetworkUrls, compute_units_per_second : ComputeUnits]

RECURSIVE SeqsUpTo(_, _)
\* the sequences over S of length at most n
SeqsUpTo(S, n) ==
    IF n = 0 THEN {<<>>}
    ELSE LET shorter == SeqsUpTo(S, n - 1)
         IN  shorter \cup {Append(s, x) : s \in {t \in shorter : Len(t) = n - 1}, x \in S}

NameAlphabet == {"i", DotlessI, "k", "K", KelvinSign, "1"}

\* the names of the naming specification: every non-empty string over
\* NameAlphabet of length at most MaxNameLen, and "Ethereum"
BoundedNames == (SeqsUpTo(NameAlphabet, MaxNameLen) \ {<<>>}) \cup {Ethereum}

(* ------------------------------- state --------------------------------- *)

VARIABLES
    networks,        \* the slice passed to generate_networks_code
    pc,              \* position inside generate_networks_code
    idx,             \* position of the running for loop in networks
    output,          \* the local `output`
    results,         \* the values returned so far, one per call
    predicted,       \* the accessor names a collaborator derived from the names
    provider_names,  \* network_provider_name of each network, once resolved
    fn_names         \* network_provider_fn_name of each network, once resolved

vars == <<networks, pc, idx, output, results, predicted, provider_names, fn_names>>

(* ----------------------- generate_networks_code ----------------------- *)

Init ==
    /\ networks \in SeqsUpTo(Network, MaxNetworks)
    /\ pc = "idle"
    /\ idx = 0
    /\ output = <<>>
    /\ results = <<>>
    /\ predicted = <<>>
    /\ provider_names = <<>>
    /\ fn_names = <<>>

\* variant: the header is appended to the text of the previous call
Call_reusing_output ==
    /\ pc = "idle"
    /\ Len(results) < MaxCalls
    /\ output' = push_str(IF results = <<>> THEN <<>> ELSE results[Len(results)],
                          Code_new(Header))
    /\ idx' = 1
    /\ pc' = "lazy_loop"
    /\ UNCHANGED <<networks, results, predicted, provider_names, fn_names>>

\* line 115: a fresh output holding the header
Call ==
    /\ pc = "idle"
    /\ Len(results) < MaxCalls
    /\ output' = Code_new(Header)
    /\ idx' = 1
    /\ pc' = "lazy_loop"
    /\ UNCHANGED <<networks, results, predicted, provider_names, fn_names>>

\* variant: a single pass emits the declaration and the accessor together
LazyLoop_interleaved ==
    /\ pc = "lazy_loop"
    /\ idx <= Len(networks)
    /\ output' = push_str(push_str(output,
                                   generate_network_lazy_provider_code(networks[idx])),
                          generate_network_provider_code(networks[idx]))
    /\ idx' = idx + 1
    /\ UNCHANGED <<networks, pc, results, predicted, provider_names, fn_names>>

\* variant: a network whose provider name was already declared is skipped
LazyLoop_dedup ==
    /\ pc = "lazy_loop"
    /\ idx <= Len(networks)
    /\ output' = IF \E j \in 1..(idx - 1) :
                       network_provider_name(networks[j])
                           = network_provider_name(networks[idx])
                 THEN output
                 ELSE push_str(output, generate_network_lazy_provider_code(networks[idx]))
    /\ idx' = idx + 1
    /\ UNCHANGED <<networks, pc, results, predicted, provider_names, fn_names>>

\* lines 130-132: one iteration of the first loop
LazyLoop ==
    /\ pc = "lazy_loop"
    /\ idx <= Len(networks)
    /\ output' = push_str(output, generate_network_lazy_provider_code(networks[idx]))
    /\ idx' = idx + 1
    /\ UNCHANGED <<networks, pc, results, predicted, provider_names, fn_names>>

\* variant: the block is left open
CloseBlock_unclosed ==
    /\ pc = "lazy_loop"
    /\ idx > Len(networks)
    /\ output' = output
    /\ idx' = 1
    /\ pc' = "provider_loop"
    /\ UNCHANGED <<networks, results, predicted, provider_names, fn_names>>

\* line 134: the first loop is over, the block is closed
CloseBlock ==
    /\ pc = "lazy_loop"
    /\ idx > Len(networks)
    /\ output' = push_str(output, Code_new(CloseBrace))
    /\ idx' = 1
    /\ pc' = "provider_loop"
    /\ UNCHANGED <<networks, results, predicted, provider_names, fn_names>>

\* lines 136-138: one iteration of the second loop
ProviderLoop ==
    /\ pc = "provider_loop"
    /\ idx <= Len(networks)
    /\ output' = push_str(output, generate_network_provider_code(networks[idx]))
    /\ idx' = idx + 1
    /\ UNCHANGED <<networks, pc, results, predicted, provider_names, fn_names>>

\* line 140: output is moved to the caller
Return ==
    /\ pc = "provider_loop"
    /\ idx > Len(networks)
    /\ results' = Append(results, output)
    /\ output' = <<>>
    /\ idx' = 0
    /\ pc' = "idle"
    /\ UNCHANGED <<networks, predicted, provider_names, fn_names>>

\* a collaborator derives the accessor name of every network from its name
PredictFnNames ==
    /\ pc = "idle"
    /\ predicted = <<>>
    /\ Len(networks) >= 1
    /\ predicted' = [i \in 1..Len(networks) |->
                        network_provider_fn_name_by_name(networks[i].name)]
    /\ UNCHANGED <<networks, pc, idx, output, results, provider_names, fn_names>>

Next ==
    \/ Call
    \/ LazyLoop
    \/ CloseBlock
    \/ ProviderLoop
    \/ Return
    \/ PredictFnNames

Spec == Init /\ [][Next]_vars

(* --------------------------- naming alone ------------------------------ *)

NamedNetwork(n) == [name |-> n, url |-> EthUrl, compute_units_per_second |-> None]

InitNaming ==
    /\ \E a \in BoundedNames, b \in BoundedNames :
          networks = <<NamedNetwork(a), NamedNetwork(b)>>
    /\ pc = "idle"
    /\ idx = 0
    /\ output = <<>>
    /\ results = <<>>
    /\ predicted = <<>>
    /\ provider_names = <<>>
    /\ fn_names = <<>>

\* the storage identifier of every network is derived
ResolveProviderNames ==
    /\ provider_names = <<>>
    /\ provider_names' = [i \in 1..Len(networks) |-> network_provider_name(networks[i])]
    /\ UNCHANGED <<networks, pc, idx, output, results, predicted, fn_names>>

\* the accessor identifier of every network is derived
ResolveFnNames ==
    /\ fn_names = <<>>
    /\ fn_names' = [i \in 1..Len(networks) |-> network_provider_fn_name(networks[i])]
    /\ UNCHANGED <<networks, pc, idx, output, results, predicted, provider_names>>

NextNaming ==
    \/ ResolveProviderNames
    \/ ResolveFnNames

SpecNaming == InitNaming /\ [][NextNaming]_vars


(* ===================== reading the generated text ====================== *)

\* pat occurs in s at position i
OccursAt(pat, s, i) ==
    /\ i >= 1
    /\ i + Len(pat) - 1 <= Len(s)
    /\ \A j \in 1..Len(pat) : s[i + j - 1] = pat[j]

RECURSIVE SortedSeq(_)
\* the elements of a finite set of integers in increasing order
SortedSeq(S) ==
    IF S = {} THEN <<>>
    ELSE LET m == CHOOSE x \in S : \A y \in S : x <= y
         IN  <<m>> \o SortedSeq(S \ {m})

\* the positions of s where pat occurs, in increasing order
Positions(pat, s) == SortedSeq({i \in 1..Len(s) : s[i] = pat[1] /\ OccursAt(pat, s, i)})

\* the text of s from position from up to the first character of stop
TakeUntil(s, from, stop) ==
    LET e == CHOOSE e \in from..(Len(s) + 1) :
                 /\ e = Len(s) + 1 \/ s[e] \in stop
                 /\ \A j \in from..(e - 1) : s[j] \notin stop
    IN  SubSeq(s, from, e - 1)

\* the text of s that ends at position to and starts after the last character of stop
TakeBackUntil(s, to, stop) ==
    LET b == CHOOSE b \in 0..to :
                 /\ b = 0 \/ s[b] \in stop
                 /\ \A j \in (b + 1)..to : s[j] \notin stop
    IN  SubSeq(s, b + 1, to)

\* the last position before limit where pat occurs in s, 0 when there is none
LastBefore(pat, s, limit) ==
    LET ps == {i \in 1..(limit - 1) : s[i] = pat[1] /\ OccursAt(pat, s, i)}
    IN  IF ps = {} THEN 0 ELSE CHOOSE x \in ps : \A y \in ps : y <= x

StaticRefMark == <<"s", "t", "a", "t", "i", "c", " ", "r", "e", "f", " ">>

PubFnMark == <<"p", "u", "b", " ", "f", "n", " ">>

ClientOpenMark ==
    <<"c", "r", "e", "a", "t", "e", "_", "r", "e", "t", "r", "y", "_", "c", "l", "i", "e",
      "n", "t", "(", "\"">>

ExpectMark == <<")", ".", "e", "x", "p", "e", "c", "t", "(">>

CloneMark == <<".", "c", "l", "o", "n", "e", "(", ")">>

NoParamsMark == <<"(", ")", " ", "-", ">">>

HintSeparator == <<"\"", ",", " ">>

BlockOpenMark ==
    <<"l", "a", "z", "y", "_", "s", "t", "a", "t", "i", "c", "!", " ", "{">>

Blank == {" ", "\n"}

\* where the storage declarations and the accessor functions start in a text
DeclPositions(text) == Positions(StaticRefMark, text)

FnPositions(text) == Positions(PubFnMark, text)

\* the identifier declared by the declaration at position p
DeclaredIdAt(text, p) == TakeUntil(text, p + Len(StaticRefMark), {":"})

\* the name of the function declared at position p
FnNameAt(text, p) == TakeUntil(text, p + Len(PubFnMark), {"("})

\* the identifier cloned by the function body whose .clone() is at position c
ClonedIdBefore(text, c) == TakeBackUntil(text, c - 1, Blank)

\* the rate-limit hint of the declaration whose .expect( is at position e:
\* the text between the last quote-comma before e and e
HintBefore(text, e) ==
    SubSeq(text, LastBefore(HintSeparator, text, e) + Len(HintSeparator), e - 1)

RECURSIVE ParseDecimal(_)
\* the number a string of decimal digits denotes
ParseDecimal(ds) ==
    IF ds = <<>> THEN 0
    ELSE 10 * ParseDecimal(SubSeq(ds, 1, Len(ds) - 1))
         + (CHOOSE d \in 0..9 : Digits[d + 1] = ds[Len(ds)])

RECURSIVE Concat(_)
\* the concatenation of a sequence of texts
Concat(texts) ==
    IF texts = <<>> THEN <<>> ELSE texts[1] \o Concat(Tail(texts))

\* no character of s is one of the two non-ASCII letters of the inputs
IsAscii(s) == \A i \in 1..Len(s) : s[i] \notin {DotlessI, KelvinSign}

\* two names that some case folding identifies; names are distinct under
\* case-insensitive comparison when neither their lower-cased nor their
\* upper-cased forms are equal
EqIgnoringCase(a, b) ==
    \/ to_lowercase(a) = to_lowercase(b)
    \/ to_uppercase(a) = to_uppercase(b)

(* ============================== claims ================================= *)

\* the texts the caller holds once a call has returned
Returned == IF pc = "idle" THEN {results[k] : k \in 1..Len(results)} ELSE {}

N == Len(networks)

\* C1: for a non-empty input, every storage declaration of a returned text
\* ends before every accessor function starts, there are as many of each as
\* descriptors, and the i-th declaration and the i-th accessor are the
\* fragments of the i-th descriptor.
C1_DeclarationsPrecedeAccessors ==
    \A text \in Returned :
        N >= 1 =>
            \A D \in {DeclPositions(text)}, F \in {FnPositions(text)} :
                /\ Len(D) = N
                /\ Len(F) = N
                /\ \A i \in 1..N :
                       \A decl \in {generate_network_lazy_provider_code(networks[i])},
                          fn \in {generate_network_provider_code(networks[i])},
                          d0 \in {D[i] - (Len(LazyPart0) - Len(StaticRefMark))},
                          f0 \in {F[i] - (Len(ProviderPart0) - Len(PubFnMark))} :
                           /\ SubSeq(text, d0, d0 + Len(decl) - 1) = decl
                           /\ SubSeq(text, f0, f0 + Len(fn) - 1) = fn
                           /\ \A j \in 1..N : d0 + Len(decl) - 1 < F[j]
                /\ \A i \in 1..(N - 1) : D[i] < D[i + 1] /\ F[i] < F[i + 1]

C1_Witness ==
    /\ pc = "idle"
    /\ results # <<>>
    /\ N = 2
    /\ networks[1] # networks[2]
    /\ Len(FnPositions(results[1])) = 2

\* C2: a returned text is the header, the N declarations, one closing
\* brace, the N accessor functions, in that order and nothing else; the
\* header ends with the opening of the block; the block is closed exactly
\* once, after every declaration and before every accessor function; for
\* N = 0 the text is the header followed by the closing brace.
C2_ExactLayout ==
    \A text \in Returned :
        \A D \in {DeclPositions(text)}, F \in {FnPositions(text)},
           open \in {Len(Header) - Len(TakeBackUntil(Header, Len(Header), {"{"}))} :
            LET afterBlock == IF F = <<>> THEN Len(text) + 1 ELSE F[1]
                closes == {p \in (Len(Header) + 1)..(afterBlock - 1) : text[p] = "}"}
            IN  /\ text = Header
                          \o Concat([i \in 1..N |->
                                        generate_network_lazy_provider_code(networks[i])])
                          \o CloseBrace
                          \o Concat([i \in 1..N |->
                                        generate_network_provider_code(networks[i])])
                /\ SubSeq(text, 1, Len(Header)) = Header
                /\ OccursAt(BlockOpenMark, Header, open - Len(BlockOpenMark) + 1)
                /\ \A q \in (open + 1)..Len(Header) : Header[q] \in Blank
                /\ Len(D) = N
                /\ Len(F) = N
                /\ Cardinality(closes) = 1
                /\ \A p \in closes :
                       /\ \A i \in 1..N : Len(Header) < D[i] /\ D[i] < p
                       /\ \A i \in 1..N : p < F[i]
                /\ N = 0 => text = Header \o <<"}">>

C2_Witness ==
    /\ Len(results) = 1
    /\ N = 2
    /\ pc = "idle"
    /\ Len(DeclPositions(results[1])) = 2

C2_WitnessEmpty ==
    /\ pc = "idle"
    /\ results # <<>>
    /\ N = 0

ETHEREUM_PROVIDER ==
    <<"E", "T", "H", "E", "R", "E", "U", "M", "_", "P", "R", "O", "V", "I", "D", "E", "R">>

get_ethereum_provider ==
    <<"g", "e", "t", "_", "e", "t", "h", "e", "r", "e", "u", "m", "_", "p", "r", "o", "v",
      "i", "d", "e", "r">>

\* C3: a resolved storage identifier is the upper-cased name followed by
\* "_PROVIDER", a resolved accessor identifier is "get_" followed by the
\* lower-cased storage identifier; for "Ethereum" they are
\* "ETHEREUM_PROVIDER" and "get_ethereum_provider".
C3_IdentifierShape ==
    /\ provider_names # <<>> =>
           \A i \in 1..N :
               LET name == networks[i].name
                   id == provider_names[i]
               IN  /\ Len(id) = Len(name) + 9
                   /\ SubSeq(id, 1, Len(name)) = to_uppercase(name)
                   /\ SubSeq(id, Len(name) + 1, Len(id)) = ProviderSuffix
                   /\ name = Ethereum => id = ETHEREUM_PROVIDER
    /\ fn_names # <<>> =>
           \A i \in 1..N :
               LET name == networks[i].name
                   fn == fn_names[i]
               IN  /\ SubSeq(fn, 1, 4) = GetPrefix
                   /\ SubSeq(fn, 5, Len(fn)) = to_lowercase(to_uppercase(name) \o ProviderSuffix)
                   /\ provider_names # <<>> =>
                          SubSeq(fn, 5, Len(fn)) = to_lowercase(provider_names[i])
                   /\ name = Ethereum => fn = get_ethereum_provider

C3_Witness ==
    /\ provider_names # <<>>
    /\ fn_names # <<>>
    /\ networks[1].name = Ethereum
    /\ provider_names[1] = ETHEREUM_PROVIDER
    /\ fn_names[1] = get_ethereum_provider

\* C4 as stated: whenever the names of the two networks are not identified
\* by any case folding, their storage identifiers differ and their accessor
\* identifiers differ.
C4_InjectiveOnCaseDistinctNames ==
    (/\ provider_names # <<>>
     /\ fn_names # <<>>
     /\ ~EqIgnoringCase(networks[1].name, networks[2].name))
        => /\ provider_names[1] # provider_names[2]
           /\ fn_names[1] # fn_names[2]

\* C4 amended: whenever the names of the two networks are ASCII and differ
\* ignoring case, their storage identifiers differ and their accessor
\* identifiers differ.
C4_InjectiveOnAsciiCaseDistinctNames ==
    (/\ provider_names # <<>>
     /\ fn_names # <<>>
     /\ IsAscii(networks[1].name)
     /\ IsAscii(networks[2].name)
     /\ ~EqIgnoringCase(networks[1].name, networks[2].name))
        => /\ provider_names[1] # provider_names[2]
           /\ fn_names[1] # fn_names[2]

C4_Witness ==
    /\ provider_names # <<>>
    /\ fn_names # <<>>
    /\ networks[1].name = <<"i", "K">>
    /\ networks[2].name = <<"i", "1">>
    /\ provider_names[1] # provider_names[2]

\* C5: in every returned text the hint of the i-th declaration is "None"
\* and holds no digit when compute_units_per_second is absent, and is
\* "Some(" digits ")" with the digits denoting exactly V when it is Some(V).
C5_HintRendering ==
    \A text \in Returned :
        \A E \in {Positions(ExpectMark, text)} :
            \A i \in 1..N :
                \A hint \in {HintBefore(text, E[i])} :
                    LET cups == networks[i].compute_units_per_second
                        digits == SubSeq(hint, Len(SomeOpen) + 1, Len(hint) - 1)
                    IN  IF cups = None
                        THEN /\ hint = <<"N", "o", "n", "e">>
                             /\ Range(hint) \cap Range(Digits) = {}
                        ELSE /\ Len(hint) > Len(SomeOpen) + 1
                             /\ SubSeq(hint, 1, Len(SomeOpen)) = <<"S", "o", "m", "e", "(">>
                             /\ hint[Len(hint)] = ")"
                             /\ Range(digits) \subseteq Range(Digits)
                             /\ ParseDecimal(digits) = cups[1]
                             /\ Len(digits) > 1 => digits[1] # "0"

C5_Witness ==
    /\ pc = "idle"
    /\ results # <<>>
    /\ N = 2
    /\ networks[1].compute_units_per_second = None
    /\ networks[2].compute_units_per_second = Some(330)
    /\ HintBefore(results[1], Positions(ExpectMark, results[1])[2])
           = <<"S", "o", "m", "e", "(", "3", "3", "0", ")">>

\* C6: every call on the same slice returns the same text, whatever was
\* returned or derived before it.
C6_Deterministic ==
    \A k \in 1..Len(results) : results[k] = results[1]

C6_Witness ==
    /\ Len(results) >= 2
    /\ N >= 1
    /\ predicted # <<>>
    /\ Len(results[2]) > Len(Header)

\* C7: a returned text holds exactly N declarations and N accessor
\* functions, also when two descriptors have names that are equal or differ
\* only in case, and the declarations of two such descriptors declare the
\* same identifier.
C7_NoDeduplication ==
    \A text \in Returned :
        \A D \in {DeclPositions(text)}, F \in {FnPositions(text)} :
            /\ Len(D) = N
            /\ Len(F) = N
            /\ \A i \in 1..N : \A j \in 1..N :
                   to_uppercase(networks[i].name) = to_uppercase(networks[j].name)
                       => /\ DeclaredIdAt(text, D[i]) = DeclaredIdAt(text, D[j])
                          /\ FnNameAt(text, F[i]) = FnNameAt(text, F[j])

C7_Witness ==
    /\ pc = "idle"
    /\ results # <<>>
    /\ N = 2
    /\ networks[1].name = Ethereum
    /\ networks[2].name = ethereum
    /\ Len(DeclPositions(results[1])) = 2
    /\ DeclaredIdAt(results[1], DeclPositions(results[1])[1])
           = DeclaredIdAt(results[1], DeclPositions(results[1])[2])

C7_WitnessEqualNames ==
    /\ pc = "idle"
    /\ results # <<>>
    /\ N = 2
    /\ networks[1] = networks[2]
    /\ Len(FnPositions(results[1])) = 2

\* C8: in every returned text the i-th accessor function is named by the
\* accessor identifier of the i-th descriptor, takes no parameters, and
\* clones the identifier that the i-th declaration declares.
C8_AccessorReturnsDeclaredHandle ==
    \A text \in Returned :
        \A D \in {DeclPositions(text)}, F \in {FnPositions(text)},
           C \in {Positions(CloneMark, text)} :
            \A i \in 1..N :
                \A fn \in {FnNameAt(text, F[i])}, id \in {DeclaredIdAt(text, D[i])} :
                    /\ fn = network_provider_fn_name(networks[i])
                    /\ OccursAt(NoParamsMark, text, F[i] + Len(PubFnMark) + Len(fn))
                    /\ ClonedIdBefore(text, C[i]) = id
                    /\ id = network_provider_name(networks[i])

C8_Witness ==
    /\ pc = "idle"
    /\ results # <<>>
    /\ N = 2
    /\ networks[1].name = DotlessKelvin
    /\ networks[2].name = Ethereum
    /\ ClonedIdBefore(results[1], Positions(CloneMark, results[1])[2]) = ETHEREUM_PROVIDER

\* C9: in every returned text the i-th declaration holds the url of the
\* i-th descriptor character for character between the opening quote of
\* create_retry_client(" and the quote-comma that ends the argument.
C9_UrlVerbatim ==
    \A text \in Returned :
        \A O \in {Positions(ClientOpenMark, text)}, E \in {Positions(ExpectMark, text)} :
            \A i \in 1..N :
                \A start \in {O[i] + Len(ClientOpenMark)},
                   stop \in {LastBefore(HintSeparator, text, E[i])} :
                    /\ SubSeq(text, start, stop - 1) = networks[i].url
                    /\ stop - start = Len(networks[i].url)

C9_Witness ==
    /\ pc = "idle"
    /\ results # <<>>
    /\ N >= 1
    /\ networks[1].url = QuotedUrl
    /\ OccursAt(<<"/", "\"", "\\", "\"", ",", " ">>, results[1],
                Positions(ClientOpenMark, results[1])[1] + Len(ClientOpenMark) + 6)

\* C10: the accessor name a collaborator derives from the name of the i-th
\* network is network_provider_fn_name of that network and is the name of
\* the i-th accessor function of every returned text.
C10_NamingEntryPointsAgree ==
    predicted # <<>> =>
        /\ \A i \in 1..N : predicted[i] = network_provider_fn_name(networks[i])
        /\ \A text \in Returned :
               \A F \in {FnPositions(text)} :
                   \A i \in 1..N : FnNameAt(text, F[i]) = predicted[i]

C10_Witness ==
    /\ pc = "idle"
    /\ predicted # <<>>
    /\ results # <<>>
    /\ networks[1].name = DotlessKelvin
    /\ predicted[1] = <<"g", "e", "t", "_", "i", "k", "_", "p", "r", "o", "v", "i", "d", "e", "r">>
=============================================================================
